---- MODULE Spec2Model ----
(***************************************************************************)
(* A model of InverseMatNastran: the DOT wrapper (dot.py), the inverse     *)
(* material identification script (optimization.py) and the GENESIS        *)
(* utility functions (analysis.py).                                        *)
(*                                                                         *)
(* Real numbers are modelled as integers:                                  *)
(*   - design variables of the script are counted in ticks of 1/Grid;      *)
(*   - material values (E, G) are counted in units of 1e7/Grid, so that    *)
(*     the scale factor 1.e7 is 1 and the scale factor 1.e10 is 1000;      *)
(*   - the constraint values of the stand-alone callback dot.evaluate are  *)
(*     counted in halves (g[0] = 1.0 - 0.5*x0*x1*x2).                      *)
(***************************************************************************)
EXTENDS Integers, Sequences, FiniteSets, TLC

VARIABLES
    pc,        \* position of the program
    NDV,       \* dotcall: number of design variables (x.shape[0])
    NCON,      \* dotcall: number of constraints
    X,         \* dotcall: the design buffer
    XL,        \* dotcall: lower bounds buffer
    XU,        \* dotcall: upper bounds buffer
    OBJ,       \* dotcall: the objective buffer
    G,         \* dotcall: the constraint buffer
    INFO,      \* dotcall: the status code written by dot_
    IERR,      \* dotcall: the error code written by dot510_
    rslt,      \* dotcall: the returned array (<<>> until dotcall returns)
    err,       \* the exception that ended the program ("none" while running)
    nSizing,   \* history: number of dot510_ calls
    nSteps,    \* history: number of dot_ calls
    nSignals,  \* history: number of dot_ calls that returned INFO != 0
    nCalls,    \* history: number of invocations of the evaluation callback
    objStamp,  \* history: value of nSteps when the callback last wrote OBJ
    cbX,       \* history: the design values the callback was last handed
    bdfLines,  \* the lines of the BDF file that get_units scans
    nRead,     \* get_units: lines consumed from cur_file
    cur_pos,   \* get_units: cur_pos
    no_chars,  \* get_units: no_chars
    units,     \* optimization.units ("unset" until get_units returned)
    scalar,    \* myEvaluate: scalar of the latest evaluation (0 before)
    matE,      \* myEvaluate: E of the latest evaluation
    matG,      \* myEvaluate: G of the latest evaluation
    bdfMat,    \* the MAT1 card as it stands in the BDF file
    op2,       \* the result file <base>00.op2
    op2gz,     \* the result file <base>00.op2.gz
    compresses,\* environment: GENESIS writes its OP2 result compressed
    nRuns,     \* history: number of GENESIS runs launched
    readRes,   \* history: the result file contents getObjectiveFn last read
    femShape,  \* setupTransform: femPnts.shape
    dicShape,  \* setupTransform: dicPnts.shape
    setupOut,  \* setupTransform: how the call ended
    transMat,  \* getObjectiveFn: the transMat argument
    numpyOld,  \* environment: a numpy whose (array != None) is a plain bool
    expData,   \* getObjectiveFn: the rows of the experimental data file
    objOut,    \* getObjectiveFn: how the call ended
    dispOut    \* the displacement rule applied to plain arrays

dotVars == <<pc, NDV, NCON, X, XL, XU, OBJ, G, INFO, IERR, rslt, err,
             nSizing, nSteps, nSignals, nCalls, objStamp, cbX>>

bufVars == <<NDV, NCON, X, XL, XU, OBJ, G, INFO, IERR, rslt>>

histVars == <<nSizing, nSteps, nSignals, nCalls, objStamp, cbX>>

unitVars == <<bdfLines, nRead, cur_pos, no_chars, units>>

feVars == <<scalar, matE, matG, bdfMat, op2, op2gz, compresses, nRuns, readRes>>

xfVars == <<femShape, dicShape, setupOut, transMat, numpyOld, expData,
            objOut, dispOut>>

vars == <<dotVars, unitVars, feVars, xfVars>>

(***************************************************************************)
(* Bounds of the model.                                                    *)
(***************************************************************************)
MaxSteps == 2      \* dot_ signals NEED_EVALUATION at most this many times
MaxDvar  == 3      \* largest number of design variables of a dotcall
MaxCons  == 2      \* largest number of constraints of a dotcall
MaxVal   == 2      \* design values of the stand-alone runs are 1..MaxVal
MaxIerr  == 1      \* dot510_ reports IERR in 0..MaxIerr
MaxLines == 2      \* the BDF file has at most this many lines
MaxLineLen == 1    \* a line has 1..MaxLineLen characters
Grid     == 8      \* design variables of the script are in ticks of 1/Grid
MaxPnts  == 4      \* setupTransform is handed 0..MaxPnts points
MaxCols  == 3      \* ... of 1..MaxCols coordinates each
MaxCoef  == 1      \* the linear terms of a transform are in -MaxCoef..MaxCoef
MaxCoord == 1      \* observation coordinates and displacements are in 0..MaxCoord
MantBits == 3      \* bits of the significand of the model's floating point

(***************************************************************************)
(* Helpers.                                                                *)
(***************************************************************************)
RECURSIVE SeqMax(_)
\* Python's max() over a non-empty ctypes array
SeqMax(s) ==
    IF Len(s) = 1 THEN s[1]
    ELSE LET m == SeqMax(Tail(s)) IN IF s[1] >= m THEN s[1] ELSE m

\* The status codes dot_ hands back: 0 = done, 1 = evaluate the functions,
\* 2 = evaluate the gradients.  dotcall only tests INFO against 0.
InfoCodes == {0, 1, 2}

\* The design vectors dot_ may write into X: the vectors over `vals` that
\* respect the side constraints XL <= X <= XU.
WithinBounds(vals) ==
    {x \in [1..NDV -> vals] : \A i \in 1..NDV : XL[i] <= x[i] /\ x[i] <= XU[i]}

\* A result file that does not exist, and one left behind by an earlier
\* session; a file GENESIS wrote records the run and the E, G it solved for.
NoFile == [exists |-> FALSE, run |-> 0, e |-> 0, g |-> 0]
OldFile == [exists |-> TRUE, run |-> 0, e |-> 0, g |-> 0]

\* A call that has not been made yet.
Pending == [status |-> "pending"]

\* The 2x3 matrix of zeros, and transMat = None
ZeroMatrix == <<<<0, 0, 0>>, <<0, 0, 0>>>>
NoTransform == [none |-> TRUE, m |-> ZeroMatrix]

\* The MAT1 card of the BDF file before the program touches it.
NoCard == [e |-> 0, g |-> 0, nu |-> <<0, 1>>]

(***************************************************************************)
(* dot.dotcall                                                             *)
(***************************************************************************)
\* dot510_: the sizing query.  It writes IERR (and the work array sizes);
\* dotcall never reads IERR and goes on to allocate the work arrays.
Dot510 ==
    /\ pc = "dot510"
    /\ \E e \in 0..MaxIerr : IERR' = e
    /\ nSizing' = nSizing + 1
    /\ pc' = "dot"
    /\ UNCHANGED <<xfVars, NDV, NCON, X, XL, XU, OBJ, G, INFO, rslt, err,
                   nSteps, nSignals, nCalls, objStamp, cbX, unitVars, feVars>>

\* AfterDot with the test INFO == 1 in place of INFO != 0
AfterDot_OnlyInfo1(info) == IF info = 1 THEN "evaluate" ELSE "result"

\* What dotcall does with the INFO value a dot_ call left behind.
AfterDot(info) == IF info = 0 THEN "result" ELSE "evaluate"

\* dot_: one step of the optimizer.  It writes INFO and moves X within the
\* bounds; OBJ and G are its inputs.
Dot(vals) ==
    /\ pc = "dot"
    /\ \E info \in InfoCodes, x \in WithinBounds(vals) :
          /\ info # 0 => nSignals < MaxSteps
          /\ INFO' = info
          /\ X' = x
          /\ nSignals' = IF info # 0 THEN nSignals + 1 ELSE nSignals
          /\ pc' = AfterDot(info)
    /\ nSteps' = nSteps + 1
    /\ UNCHANGED <<xfVars, NDV, NCON, XL, XU, OBJ, G, IERR, rslt, err,
                   nSizing, nCalls, objStamp, cbX, unitVars, feVars>>

\* MaxConstraint returning the first constraint value in place of the largest
MaxConstraint_First(g) == IF Len(g) > 0 THEN g[1] ELSE 0

\* rslt[1] of dotcall: the largest constraint value, 0.0 without constraints
MaxConstraint(g) == IF Len(g) > 0 THEN SeqMax(g) ELSE 0

\* The array dotcall returns.
Result(obj, g, x) == <<obj, MaxConstraint(g)>> \o x

DotResult ==
    /\ pc = "result"
    /\ rslt' = Result(OBJ, G, X)
    /\ pc' = "returned"
    /\ UNCHANGED <<xfVars, NDV, NCON, X, XL, XU, OBJ, G, INFO, IERR, err,
                   nSizing, nSteps, nSignals, nCalls, objStamp, cbX,
                   unitVars, feVars>>

\* OnCallbackError with the exception caught and the loop continued
OnCallbackError_Swallow == "dot"

\* Where dotcall goes when the evaluation callback raises: nothing in
\* dotcall catches, so the exception leaves dotcall.
OnCallbackError == "raised"

(***************************************************************************)
(* dot.evaluate: the callback of the stand-alone wrapper.                  *)
(*   obj.value = 2.0*(x[0]*x[1] + x[0]*x[2] + 2.0*x[1]*x[2])               *)
(*   g[0]      = 1.0 - 0.5*x[0]*x[1]*x[2]          (here in halves)        *)
(* x and g are ctypes arrays: an index past the end raises IndexError.     *)
(***************************************************************************)
ToyObjective(x) == 2 * (x[1] * x[2] + x[1] * x[3] + 2 * x[2] * x[3])
ToyConstraint(x) == 2 - x[1] * x[2] * x[3]

Evaluate ==
    /\ pc = "evaluate"
    /\ nCalls' = nCalls + 1
    /\ cbX' = X
    /\ IF NDV < 3
       THEN \* x[2] does not exist: IndexError before obj is written
            /\ err' = "IndexError"
            /\ pc' = OnCallbackError
            /\ UNCHANGED <<OBJ, G, objStamp>>
       ELSE /\ OBJ' = ToyObjective(X)
            /\ objStamp' = nSteps
            /\ IF NCON < 1
               THEN \* g[0] does not exist: IndexError after obj is written
                    /\ err' = "IndexError"
                    /\ pc' = OnCallbackError
                    /\ UNCHANGED G
               ELSE /\ G' = [G EXCEPT ![1] = ToyConstraint(X)]
                    /\ pc' = "dot"
                    /\ UNCHANGED err
    /\ UNCHANGED <<xfVars, NDV, NCON, X, XL, XU, INFO, IERR, rslt,
                   nSizing, nSteps, nSignals, unitVars, feVars>>

\* A stand-alone run of dotcall(x, xl, xu, nCons) with the class's own
\* evaluate: the state after lines 28-63 of dotcall.
InitDot ==
    /\ pc = "dot510"
    /\ NDV \in 2..MaxDvar
    /\ NCON \in 0..MaxCons
    /\ XL = [i \in 1..NDV |-> 1]
    /\ XU = [i \in 1..NDV |-> MaxVal]
    /\ X \in [1..NDV -> 1..MaxVal]
    /\ OBJ = 0
    /\ G = [i \in 1..NCON |-> 0]
    /\ INFO = 0
    /\ IERR = 0
    /\ rslt = <<>>
    /\ err = "none"
    /\ nSizing = 0 /\ nSteps = 0 /\ nSignals = 0 /\ nCalls = 0
    /\ objStamp = 0
    /\ cbX = <<>>
    /\ bdfLines = <<>> /\ nRead = 0 /\ cur_pos = 0 /\ no_chars = 0
    /\ units = "unset"
    /\ scalar = 0 /\ matE = 0 /\ matG = 0
    /\ bdfMat = NoCard /\ op2 = NoFile /\ op2gz = NoFile
    /\ compresses = FALSE /\ nRuns = 0 /\ readRes = NoFile
    /\ femShape = <<0, 0>> /\ dicShape = <<0, 0>> /\ setupOut = Pending
    /\ transMat = NoTransform /\ numpyOld = FALSE /\ expData = <<>>
    /\ objOut = Pending /\ dispOut = Pending

NextDot ==
    \/ Dot510
    \/ Dot(1..MaxVal)
    \/ Evaluate
    \/ DotResult

SpecDot == InitDot /\ [][NextDot]_vars

(***************************************************************************)
(* Properties of dotcall, checked under SpecDot.                           *)
(***************************************************************************)
\* C1: dot510_ is called exactly once and before the first dot_ call; every
\* dot_ call that returns INFO != 0 is followed by exactly one invocation of
\* the callback, on the design buffer as dot_ left it, before the next dot_
\* call; the callback is never invoked without such a signal; so whenever
\* dot_ is about to be called again, OBJ was written after the latest step.
C1_CallOrder ==
    /\ nSizing <= 1
    /\ (pc = "dot510") <=> (nSizing = 0)
    /\ nSteps > 0 => nSizing = 1
    /\ nCalls <= nSignals
    /\ nSignals <= nCalls + 1
    /\ (pc = "evaluate") <=> (nSignals = nCalls + 1)
    /\ pc = "evaluate" => INFO # 0
    /\ (pc = "dot" /\ nSteps > 0) => (objStamp = nSteps /\ cbX = X)

C1_Witness == pc = "dot" /\ nSteps = 2 /\ nCalls = 2 /\ INFO = 2

\* C3: once dot510_ has reported IERR != 0 the run has failed: no dot_ call
\* and no callback invocation is made, and dotcall ends with an error.
C3_SizingErrorIsFatal ==
    (nSizing = 1 /\ IERR # 0) =>
        (pc = "raised" /\ err # "none" /\ nSteps = 0 /\ nCalls = 0)

\* C7: when dot_ returns INFO = 0 dotcall leaves the loop without calling
\* the callback again and returns the objective buffer, the largest entry
\* of the constraint buffer (0 without constraints) and the design buffer.
C7_Result ==
    /\ pc \in {"result", "returned"} => (INFO = 0 /\ nCalls = nSignals)
    /\ pc = "returned" =>
          /\ Len(rslt) = 2 + NDV
          /\ rslt[1] = OBJ
          /\ NCON = 0 => rslt[2] = 0
          /\ NCON > 0 => /\ \E j \in 1..NCON : rslt[2] = G[j]
                         /\ \A j \in 1..NCON : rslt[2] >= G[j]
          /\ \A i \in 1..NDV : rslt[2 + i] = X[i]

C7_Witness ==
    pc = "returned" /\ NCON = 2 /\ nCalls = 2 /\ G[1] < 0 /\ rslt[2] = 0

\* C9: once the callback has raised, no dot_ call and no callback
\* invocation follows, the exception stays, and dotcall returns no result.
C9_CallbackErrorEndsRun ==
    [][err # "none" =>
          /\ nSteps' = nSteps
          /\ nCalls' = nCalls
          /\ err' = err
          /\ rslt' = <<>>]_vars

C9_Witness == pc = "raised" /\ err = "IndexError" /\ nCalls = 1 /\ OBJ # 0

(***************************************************************************)
(* analysis.py                                                             *)
(***************************************************************************)
\* getGenesisOP2Filename(bdfFile, 0, compressed): which of the two result
\* files the name denotes.
getGenesisOP2Filename(compressed) == IF compressed THEN "op2gz" ELSE "op2"

\* The contents of the result file of that name.
FileAt(name) == IF name = "op2gz" THEN op2gz ELSE op2

\* mat.nu = (newE/(2.*newG)) - 1. as the fraction <<numerator, denominator>>
Poisson(newE, newG) == <<newE - 2 * newG, 2 * newG>>

\* changeMAT1Card(bdfFile, 1, newE, newG): the float division raises
\* ZeroDivisionError for newG = 0, before write_bdf; otherwise the card is
\* written back whatever its values.
changeMAT1Card(here, next, newE, newG) ==
    /\ pc = here
    /\ IF newG = 0
       THEN /\ err' = "ZeroDivisionError"
            /\ pc' = "raised"
            /\ UNCHANGED bdfMat
       ELSE /\ bdfMat' = [e |-> newE, g |-> newG, nu |-> Poisson(newE, newG)]
            /\ pc' = next
            /\ UNCHANGED err

\* runGENESIS(bdfFile, unZipOP2): sp.run waits for GENESIS and ignores its
\* exit status.  A successful run writes its result under the compressed or
\* the plain name; a failed run writes nothing.  With unZipOP2, gzip -f -d
\* then replaces <base>00.op2 by the unpacked <base>00.op2.gz, if that exists.
runGENESIS(here, next, unZipOP2) ==
    /\ pc = here
    /\ \E ok \in BOOLEAN :
          LET out  == [exists |-> TRUE, run |-> nRuns + 1,
                       e |-> bdfMat.e, g |-> bdfMat.g]
              name == getGenesisOP2Filename(compresses)
              gz1  == IF ok /\ name = "op2gz" THEN out ELSE op2gz
              pl1  == IF ok /\ name = "op2" THEN out ELSE op2
              zip  == unZipOP2 /\ gz1.exists
          IN  /\ op2gz' = IF zip THEN NoFile ELSE gz1
              /\ op2' = IF zip THEN gz1 ELSE pl1
    /\ nRuns' = nRuns + 1
    /\ pc' = next

\* The file getObjectiveFn hands to read_op2.
ObjectiveOP2File == getGenesisOP2Filename(FALSE)

\* The value getObjectiveFn(...).sum() stands for, times 1.e8: the misfit of
\* the displacement field that was solved for the E and G of the file read.
Misfit(res) == [field_e |-> res.e, field_g |-> res.g]

\* getObjectiveFn(bdfFile, expFile, 1, transMat=None): read_op2 raises when
\* the file does not exist.
getObjectiveFn(here, next) ==
    /\ pc = here
    /\ IF FileAt(ObjectiveOP2File).exists
       THEN /\ readRes' = FileAt(ObjectiveOP2File)
            /\ pc' = next
            /\ UNCHANGED err
       ELSE /\ err' = "FileNotFoundError"
            /\ pc' = "raised"
            /\ UNCHANGED readRes

\* The module's own test lines, run when optimization.py imports analysis:
\* E = 6.898e10 and G = 2.5e10.
TestE == 6898 * Grid
TestG == 2500 * Grid

ImportChangeMAT1Card ==
    /\ changeMAT1Card("import_changeMAT1Card", "import_runGENESIS", TestE, TestG)
    /\ UNCHANGED <<xfVars, bufVars, histVars, unitVars, scalar, matE, matG,
                   op2, op2gz, compresses, nRuns, readRes>>

ImportRunGENESIS ==
    /\ runGENESIS("import_runGENESIS", "import_getObjectiveFn", TRUE)
    /\ UNCHANGED <<xfVars, bufVars, histVars, unitVars, err, scalar, matE, matG,
                   bdfMat, compresses, readRes>>

ImportGetObjectiveFn ==
    /\ getObjectiveFn("import_getObjectiveFn", "get_units")
    /\ UNCHANGED <<xfVars, bufVars, histVars, unitVars, scalar, matE, matG,
                   bdfMat, op2, op2gz, compresses, nRuns>>

(***************************************************************************)
(* optimization.get_units                                                  *)
(* A line of the file records whether it holds the units marker            *)
(* "$*                UNITS:", whether it holds "mm", whether it holds     *)
(* "Meter", and its length in characters.                                  *)
(***************************************************************************)
Lines ==
    {l \in [marker : BOOLEAN, mm : BOOLEAN, meter : BOOLEAN, len : 1..MaxLineLen] :
        ~l.marker => (~l.mm /\ ~l.meter)}

Files == UNION {[1..n -> Lines] : n \in 0..MaxLines}

\* What readline() returns at the end of the file: the empty string
EmptyLine == [marker |-> FALSE, mm |-> FALSE, meter |-> FALSE, len |-> 0]

RECURSIVE CharsUpTo(_, _)
\* tell() after n lines of file f were read
CharsUpTo(f, n) == IF n = 0 THEN 0 ELSE CharsUpTo(f, n - 1) + f[n].len

\* Lines 57-65: open, measure, rewind.
GetUnitsOpen ==
    /\ pc = "get_units"
    /\ no_chars' = CharsUpTo(bdfLines, Len(bdfLines))
    /\ cur_pos' = 0
    /\ nRead' = 0
    /\ pc' = "get_units_loop"
    /\ UNCHANGED <<xfVars, bufVars, histVars, err, bdfLines, units, feVars>>

\* Lines 67-84: the test of the while loop and one pass through its body.
GetUnitsLoop ==
    /\ pc = "get_units_loop"
    /\ IF cur_pos <= no_chars
       THEN LET atEnd == nRead >= Len(bdfLines)
                line  == IF atEnd THEN EmptyLine ELSE bdfLines[nRead + 1]
                n     == IF atEnd THEN nRead ELSE nRead + 1
            IN  /\ nRead' = n
                /\ cur_pos' = CharsUpTo(bdfLines, n)
                /\ IF line.marker /\ line.mm
                   THEN units' = "mm" /\ pc' = "get_units_end"
                   ELSE IF line.marker /\ line.meter
                        THEN units' = "M" /\ pc' = "get_units_end"
                        ELSE UNCHANGED <<units, pc>>
       ELSE /\ pc' = "get_units_end"
            /\ UNCHANGED <<nRead, cur_pos, units>>
    /\ UNCHANGED <<xfVars, bufVars, histVars, err, bdfLines, no_chars, feVars>>

\* Lines 86-93: the statements after the loop, and the return into the
\* module's units.
GetUnitsReturn ==
    /\ pc = "get_units_end"
    /\ units' = "mm"
    /\ pc' = "dot510"
    /\ UNCHANGED <<xfVars, bufVars, histVars, err, bdfLines, nRead, cur_pos, no_chars,
                   feVars>>

(***************************************************************************)
(* optimization.myEvaluate, the callback of the script's run.              *)
(***************************************************************************)
ScalarMM == 1       \* 1.e7, in units of 1e7
ScalarM  == 1000    \* 1.e10, in units of 1e7

Scalar(u) == IF u = "mm" THEN ScalarMM ELSE ScalarM

\* Lines 100-111: the scale factor, E, G, and changeMAT1Card.
MyEvaluateChangeMAT1Card ==
    /\ nCalls' = nCalls + 1
    /\ cbX' = X
    /\ scalar' = Scalar(units)
    /\ matE' = X[1] * Scalar(units)
    /\ matG' = X[2] * Scalar(units)
    /\ changeMAT1Card("evaluate", "runGENESIS",
                      X[1] * Scalar(units), X[2] * Scalar(units))
    /\ UNCHANGED <<xfVars, bufVars, nSizing, nSteps, nSignals, objStamp, unitVars,
                   op2, op2gz, compresses, nRuns, readRes>>

\* Line 114
MyEvaluateRunGENESIS ==
    /\ runGENESIS("runGENESIS", "getObjectiveFn", FALSE)
    /\ UNCHANGED <<xfVars, bufVars, histVars, unitVars, err, scalar, matE, matG,
                   bdfMat, compresses, readRes>>

\* Lines 119-122
MyEvaluateGetObjectiveFn ==
    /\ getObjectiveFn("getObjectiveFn", "dot")
    /\ IF FileAt(ObjectiveOP2File).exists
       THEN /\ OBJ' = Misfit(FileAt(ObjectiveOP2File))
            /\ objStamp' = nSteps
       ELSE UNCHANGED <<OBJ, objStamp>>
    /\ UNCHANGED <<xfVars, NDV, NCON, X, XL, XU, G, INFO, IERR, rslt,
                   nSizing, nSteps, nSignals, nCalls, cbX, unitVars,
                   scalar, matE, matG, bdfMat, op2, op2gz, compresses, nRuns>>

(***************************************************************************)
(* The script optimization.py.                                             *)
(***************************************************************************)
ScriptDvar == 2     \* nDvar
ScriptCons == 0     \* nCons
XLo == 2            \* xl[i]
XUp == 20           \* xu[i]
XStart == 10        \* x[i]

\* n/d rounded to the nearest tick
DivRound(n, d) == (2 * n + d) \div (2 * d)

\* The design values dot_ moves between in the model: the two bounds.
ScriptChoices == {XLo * Grid, XUp * Grid}

\* The program as it starts: nothing imported yet.  The buffers of dotcall
\* already hold what lines 142-154 and 28-63 of dotcall will put there.
Init ==
    /\ pc = "import_changeMAT1Card"
    /\ NDV = ScriptDvar
    /\ NCON = ScriptCons
    /\ XL = [i \in 1..ScriptDvar |-> XLo * Grid]
    /\ XU = [i \in 1..ScriptDvar |-> XUp * Grid]
    /\ X = <<XStart * Grid, DivRound(XStart * Grid, 3)>>
    /\ OBJ = 0
    /\ G = [i \in 1..ScriptCons |-> 0]
    /\ INFO = 0
    /\ IERR = 0
    /\ rslt = <<>>
    /\ err = "none"
    /\ nSizing = 0 /\ nSteps = 0 /\ nSignals = 0 /\ nCalls = 0
    /\ objStamp = 0
    /\ cbX = <<>>
    /\ bdfLines \in Files
    /\ nRead = 0 /\ cur_pos = 0 /\ no_chars = 0
    /\ units = "unset"
    /\ scalar = 0 /\ matE = 0 /\ matG = 0
    /\ bdfMat = NoCard
    /\ op2 \in {NoFile, OldFile}
    /\ op2gz = NoFile
    /\ compresses \in BOOLEAN
    /\ nRuns = 0
    /\ readRes = NoFile
    /\ femShape = <<0, 0>> /\ dicShape = <<0, 0>> /\ setupOut = Pending
    /\ transMat = NoTransform /\ numpyOld = FALSE /\ expData = <<>>
    /\ objOut = Pending /\ dispOut = Pending

Next ==
    \/ ImportChangeMAT1Card
    \/ ImportRunGENESIS
    \/ ImportGetObjectiveFn
    \/ GetUnitsOpen
    \/ GetUnitsLoop
    \/ GetUnitsReturn
    \/ Dot510
    \/ Dot(ScriptChoices)
    \/ MyEvaluateChangeMAT1Card
    \/ MyEvaluateRunGENESIS
    \/ MyEvaluateGetObjectiveFn
    \/ DotResult

Spec == Init /\ [][Next]_vars

(***************************************************************************)
(* Properties of the script's run, checked under Spec.                     *)
(***************************************************************************)
\* An evaluation of the script's run has completed (its three calls made).
EvaluationDone == nCalls > 0 /\ pc \in {"dot", "result", "returned"}

\* C2: the result file getObjectiveFn read in an evaluation is the one that
\* evaluation's GENESIS run wrote for that evaluation's E and G.
C2_ReadsOwnResult ==
    EvaluationDone =>
        /\ readRes.exists
        /\ readRes.run = nRuns
        /\ readRes.e = matE
        /\ readRes.g = matG

\* nu = n/d lies in the open interval (-1, 0.5)
NuInRange(nu) ==
    LET n == nu[1]
        d == nu[2]
    IN  IF d > 0 THEN -d < n /\ 2 * n < d
        ELSE IF d < 0 THEN -d > n /\ 2 * n > d
        ELSE FALSE

\* C4: an evaluation whose G is zero or whose Poisson ratio lies outside
\* (-1, 0.5) fails before the BDF file is rewritten and before GENESIS is
\* launched: past changeMAT1Card the material of the evaluation is valid.
C4_InvalidMaterialStops ==
    pc \in {"runGENESIS", "getObjectiveFn"} =>
        (matG # 0 /\ NuInRange(Poisson(matE, matG)))

\* get_units has returned into the module's units.
GetUnitsReturned == pc = "dot510" \/ nSizing > 0

\* C8: for a file with one units marker line, units is "mm" when that line
\* names mm and "M" when it names Meter, and every evaluation scales by 1.e7
\* in the first case and by 1.e10 in the second.
C8_ScaleFollowsUnits ==
    \A i \in 1..Len(bdfLines) :
        (/\ GetUnitsReturned
         /\ bdfLines[i].marker
         /\ \A j \in 1..Len(bdfLines) : bdfLines[j].marker => j = i) =>
            /\ (bdfLines[i].mm /\ ~bdfLines[i].meter) =>
                  (units = "mm" /\ (nCalls > 0 => scalar = ScalarMM))
            /\ (bdfLines[i].meter /\ ~bdfLines[i].mm) =>
                  (units = "M" /\ (nCalls > 0 => scalar = ScalarM))

(***************************************************************************)
(* Floating point.  transformDICPnts and the displacement rule compute in  *)
(* floats: every sum and product is rounded to the nearest representable   *)
(* value, ties to even.  The model's floats are the integers with a        *)
(* significand of MantBits bits.                                           *)
(***************************************************************************)
RECURSIVE Pow2(_)
Pow2(n) == IF n = 0 THEN 1 ELSE 2 * Pow2(n - 1)

\* The integers 0..Mant are representable exactly
Mant == Pow2(MantBits)

RECURSIVE UlpOf(_, _)
\* The spacing of the floats around a >= 0
UlpOf(a, u) == IF a < Mant * u THEN u ELSE UlpOf(a, 2 * u)

\* v rounded to the nearest float
Fl(v) ==
    LET a  == IF v < 0 THEN -v ELSE v
        u  == UlpOf(a, 1)
        q  == a \div u
        r  == a % u
        up == 2 * r > u \/ (2 * r = u /\ q % 2 = 1)
        m  == IF up THEN (q + 1) * u ELSE q * u
    IN  IF v < 0 THEN -m ELSE m

(***************************************************************************)
(* analysis.setupTransform                                                 *)
(***************************************************************************)
\* The 2x3 matrices of the model: offsets in {0, Mant}, linear terms in
\* -MaxCoef..MaxCoef.
Rows == {<<t, a, b>> : t \in {0, Mant},
                       a \in -MaxCoef..MaxCoef, b \in -MaxCoef..MaxCoef}
Matrices == {<<rx, ry>> : rx \in Rows, ry \in Rows}

Shapes == {<<n, c>> : n \in 0..MaxPnts, c \in 1..MaxCols}

\* The test of line 231 with 2 in place of 3
TooFewPnts_Two(nPnts) == nPnts < 2

\* Line 231: nPnts < 3
TooFewPnts(nPnts) == nPnts < 3

Raised(what) == [status |-> "error", error |-> what]

\* Lines 226-246 of setupTransform for arrays of the given shapes: the error
\* raised, or "none".
SetupError(fem, dic) ==
    IF fem # dic THEN "ValueError: same shape"
    ELSE IF TooFewPnts(fem[1]) THEN "ValueError: at least 3 Pnts"
    ELSE IF dic[2] > 2
         THEN \* X[:,1:] = dicPnts cannot broadcast (nPnts, c) into (nPnts, 2)
              "ValueError: broadcast"
    ELSE IF fem[2] < 2
         THEN \* femPnts[:,1] does not exist
              "IndexError"
    ELSE "none"

\* setupTransform(femPnts, dicPnts): an error, or the matrix of the two
\* robust regressions' parameters.
SetupTransform ==
    /\ setupOut = Pending
    /\ IF SetupError(femShape, dicShape) # "none"
       THEN setupOut' = Raised(SetupError(femShape, dicShape))
       ELSE \E fit \in Matrices : setupOut' = [status |-> "ok", mat |-> fit]
    /\ UNCHANGED <<dotVars, unitVars, feVars, femShape, dicShape, transMat,
                   numpyOld, expData, objOut, dispOut>>

\* The variables of the script's run, at rest.
ScriptIdle ==
    /\ pc = "idle"
    /\ NDV = 0 /\ NCON = 0 /\ X = <<>> /\ XL = <<>> /\ XU = <<>>
    /\ OBJ = 0 /\ G = <<>> /\ INFO = 0 /\ IERR = 0 /\ rslt = <<>>
    /\ err = "none"
    /\ nSizing = 0 /\ nSteps = 0 /\ nSignals = 0 /\ nCalls = 0
    /\ objStamp = 0 /\ cbX = <<>>
    /\ bdfLines = <<>> /\ nRead = 0 /\ cur_pos = 0 /\ no_chars = 0
    /\ units = "unset"
    /\ scalar = 0 /\ matE = 0 /\ matG = 0
    /\ bdfMat = NoCard /\ op2 = NoFile /\ op2gz = NoFile
    /\ compresses = FALSE /\ nRuns = 0 /\ readRes = NoFile

InitSetup ==
    /\ femShape \in Shapes
    /\ dicShape \in Shapes
    /\ setupOut = Pending
    /\ transMat = NoTransform /\ numpyOld = FALSE /\ expData = <<>>
    /\ objOut = Pending /\ dispOut = Pending
    /\ ScriptIdle

NextSetup == SetupTransform

SpecSetup == InitSetup /\ [][NextSetup]_vars

\* C5: setupTransform fails, returning no transform, whenever the shapes
\* differ and whenever fewer than 3 points are supplied; with equal shapes
\* and at least 3 points it raises neither of these two errors.
C5_SetupTransformErrors ==
    setupOut # Pending =>
        /\ femShape # dicShape => setupOut.status = "error"
        /\ (femShape[1] < 3 \/ dicShape[1] < 3) => setupOut.status = "error"
        /\ (femShape = dicShape /\ femShape[1] >= 3) =>
              \/ setupOut.status = "ok"
              \/ setupOut.error \notin {"ValueError: same shape",
                                        "ValueError: at least 3 Pnts"}

C5_Witness ==
    /\ femShape = <<2, 2>> /\ dicShape = <<2, 2>>
    /\ setupOut = Raised("ValueError: at least 3 Pnts")

(***************************************************************************)
(* analysis.transformDICPnts and the transform branch of getObjectiveFn.   *)
(* A table (a DataFrame, or a plain array) is its column labels and its    *)
(* rows of numbers.                                                        *)
(***************************************************************************)
\* np.dot(u, w) for two vectors of 3 floats
Dot3(u, w) == Fl(Fl(Fl(u[1] * w[1]) + Fl(u[2] * w[2])) + Fl(u[3] * w[3]))

\* transformDICPnts(transMat, dicPnts): X = ones((nPnts, 3)); X[:,1:] =
\* dicPnts raises unless dicPnts has 1 or 2 columns (1 column broadcasts);
\* then the two dot products, row by row.
transformDICPnts(M, dicPnts) ==
    LET c == Len(dicPnts.labels)
    IN  IF c < 1 \/ c > 2 THEN Raised("ValueError: broadcast")
        ELSE [status |-> "ok",
              rows |-> [i \in 1..Len(dicPnts.rows) |->
                          LET r  == dicPnts.rows[i]
                              Xi == <<1, r[1], r[c]>>
                          IN  <<Dot3(Xi, M[1]), Dot3(Xi, M[2])>>]]

\* DataFrame + DataFrame aligns the columns by label: equal labels add
\* element by element, other labels give the union of the columns, all NaN.
FrameAdd(A, B) ==
    IF A.labels = B.labels
    THEN [labels |-> A.labels,
          rows |-> [i \in 1..Len(A.rows) |->
                      [k \in 1..Len(A.labels) |-> Fl(A.rows[i][k] + B.rows[i][k])]]]
    ELSE [labels |-> A.labels \o B.labels,
          rows |-> [i \in 1..Len(A.rows) |->
                      [k \in 1..(Len(A.labels) + Len(B.labels)) |-> "NaN"]]]

\* The displacement rule with the base position left untransformed
DisplacementRule_RawBase(M, pos, disp) ==
    LET txy == transformDICPnts(M, FrameAdd(pos, disp))
    IN  IF txy.status = "error" THEN txy
        ELSE [status |-> "ok",
              gxy |-> pos.rows,
              txy |-> [i \in 1..Len(pos.rows) |->
                         [k \in 1..2 |-> Fl(txy.rows[i][k] - pos.rows[i][k])]]]

\* Lines 172-179 of getObjectiveFn, the displacement rule:
\*   dic_gxy = transformDICPnts(transMat, positions)
\*   dic_txy = transformDICPnts(transMat, positions + displacements)
\*   dic_txy = dic_txy - dic_gxy
DisplacementRule(M, pos, disp) ==
    LET gxy == transformDICPnts(M, pos)
        txy == transformDICPnts(M, FrameAdd(pos, disp))
    IN  IF gxy.status = "error" THEN gxy
        ELSE IF txy.status = "error" THEN txy
        ELSE [status |-> "ok",
              gxy |-> gxy.rows,
              txy |-> [i \in 1..Len(gxy.rows) |->
                         [k \in 1..2 |-> Fl(txy.rows[i][k] - gxy.rows[i][k])]]]

\* expData.iloc[:,[1,2]] and expData.iloc[:,[4,5]]: read_csv gives every
\* column its own label, here its position in the file.
PositionsOf(data) ==
    [labels |-> <<1, 2>>, rows |-> [i \in 1..Len(data) |-> <<data[i].x, data[i].y>>]]
DisplacementsOf(data) ==
    [labels |-> <<4, 5>>, rows |-> [i \in 1..Len(data) |-> <<data[i].dx, data[i].dy>>]]

\* Lines 165-196 of getObjectiveFn: the positions and displacements the
\* residuals are computed at and against, or the error raised on the way.
\*   - (transMat != None) is False for None; for a matrix it is an array of
\*     6 booleans, whose truth value raises ValueError (a plain True under a
\*     numpy that compares an array with None as a whole);
\*   - the displacement rule;
\*   - dic_gxy.iloc on the array transformDICPnts returned: AttributeError.
ObjectiveInputs(tm, npOld, data) ==
    IF tm.none
    THEN [status |-> "ok",
          gxy |-> PositionsOf(data).rows,
          txy |-> DisplacementsOf(data).rows]
    ELSE IF ~npOld THEN Raised("ValueError: truth value of an array")
    ELSE LET r == DisplacementRule(tm.m, PositionsOf(data), DisplacementsOf(data))
         IN  IF r.status = "error" THEN r
             ELSE Raised("AttributeError: iloc")

GetObjectiveFnWithTransform ==
    /\ objOut = Pending
    /\ objOut' = ObjectiveInputs(transMat, numpyOld, expData)
    /\ UNCHANGED <<dotVars, unitVars, feVars, femShape, dicShape, setupOut,
                   transMat, numpyOld, expData, dispOut>>

\* The rows of the experimental data file: one observation point
ObsRows ==
    [x : 0..MaxCoord, y : 0..MaxCoord, dx : 0..MaxCoord, dy : 0..MaxCoord]
ExpFiles == {<<r>> : r \in ObsRows}

Transforms == {[none |-> FALSE, m |-> M] : M \in Matrices}

InitObjective ==
    /\ transMat \in {NoTransform} \cup Transforms
    /\ numpyOld \in BOOLEAN
    /\ expData \in ExpFiles
    /\ objOut = Pending /\ dispOut = Pending
    /\ femShape = <<0, 0>> /\ dicShape = <<0, 0>> /\ setupOut = Pending
    /\ ScriptIdle

NextObjective == GetObjectiveFnWithTransform

SpecObjective == InitObjective /\ [][NextObjective]_vars

\* The same table as a plain array: the columns carry no labels of their own
AsArray(T) == [labels |-> <<0, 1>>, rows |-> T.rows]

\* The displacement rule applied to plain arrays of positions and
\* displacements.
ApplyDisplacementRule ==
    /\ dispOut = Pending
    /\ dispOut' = DisplacementRule(transMat.m, AsArray(PositionsOf(expData)),
                                   AsArray(DisplacementsOf(expData)))
    /\ UNCHANGED <<dotVars, unitVars, feVars, femShape, dicShape, setupOut,
                   transMat, numpyOld, expData, objOut>>

InitRule ==
    /\ transMat \in Transforms
    /\ numpyOld = FALSE
    /\ expData \in ExpFiles
    /\ objOut = Pending /\ dispOut = Pending
    /\ femShape = <<0, 0>> /\ dicShape = <<0, 0>> /\ setupOut = Pending
    /\ ScriptIdle

NextRule == ApplyDisplacementRule

SpecRule == InitRule /\ [][NextRule]_vars

(***************************************************************************)
(* Properties of the transform branch.                                     *)
(***************************************************************************)
\* What the displacement rule gives for the data at hand under matrix M
RuleOn(M) ==
    DisplacementRule(M, AsArray(PositionsOf(expData)),
                     AsArray(DisplacementsOf(expData)))

\* C6: with a transform, getObjectiveFn completes and computes its residuals
\* at the transformed positions against apply(position + displacement) -
\* apply(position); without one, at the positions and against the
\* displacements of the file, unmodified.  Checked under SpecObjective.
C6_TransformedResidual ==
    objOut # Pending =>
        /\ objOut.status = "ok"
        /\ IF transMat.none
           THEN \A i \in 1..Len(expData) :
                   /\ objOut.gxy[i] = <<expData[i].x, expData[i].y>>
                   /\ objOut.txy[i] = <<expData[i].dx, expData[i].dy>>
           ELSE /\ objOut.gxy = RuleOn(transMat.m).gxy
                /\ objOut.txy = RuleOn(transMat.m).txy

\* The transform without its translation terms
NoOffset(M) == <<<<0, M[1][2], M[1][3]>>, <<0, M[2][2], M[2][3]>>>>

ZeroDisplacement == \A i \in 1..Len(expData) : expData[i].dx = 0 /\ expData[i].dy = 0

NoRounding(M) ==
    \A i \in 1..Len(expData), k \in 1..2 :
        LET Abs(v) == IF v < 0 THEN -v ELSE v
        IN  Abs(M[k][1]) + Abs(M[k][2]) * (expData[i].x + expData[i].dx)
              + Abs(M[k][3]) * (expData[i].y + expData[i].dy) <= Mant

InitUnits ==
    /\ pc = "get_units"
    /\ bdfLines \in Files
    /\ nRead = 0 /\ cur_pos = 0 /\ no_chars = 0
    /\ units = "unset"
    /\ NDV = 0 /\ NCON = 0 /\ X = <<>> /\ XL = <<>> /\ XU = <<>>
    /\ OBJ = 0 /\ G = <<>> /\ INFO = 0 /\ IERR = 0 /\ rslt = <<>>
    /\ err = "none"
    /\ nSizing = 0 /\ nSteps = 0 /\ nSignals = 0 /\ nCalls = 0
    /\ objStamp = 0 /\ cbX = <<>>
    /\ scalar = 0 /\ matE = 0 /\ matG = 0
    /\ bdfMat = NoCard /\ op2 = NoFile /\ op2gz = NoFile
    /\ compresses = FALSE /\ nRuns = 0 /\ readRes = NoFile
    /\ femShape = <<0, 0>> /\ dicShape = <<0, 0>> /\ setupOut = Pending
    /\ transMat = NoTransform /\ numpyOld = FALSE /\ expData = <<>>
    /\ objOut = Pending /\ dispOut = Pending

NextUnits ==
    \/ GetUnitsOpen
    \/ GetUnitsLoop
    \/ GetUnitsReturn

SpecUnits == InitUnits /\ [][NextUnits]_vars /\ WF_vars(NextUnits)

(***************************************************************************)
(* Properties of get_units, checked under SpecUnits.                       *)
(***************************************************************************)
\* The file has a units marker line that names mm or Meter.
NamesUnits(f) ==
    \E i \in 1..Len(f) : f[i].marker /\ (f[i].mm \/ f[i].meter)

\* C11: get_units terminates for every input file, and for a file with no
\* units marker line, or one whose marker line names neither mm nor Meter,
\* it has then returned the default "mm".
C11_GetUnitsTerminates ==
    /\ (pc = "get_units") ~> GetUnitsReturned
    /\ [](GetUnitsReturned /\ ~NamesUnits(bdfLines) => units = "mm")

====
